---- MODULE Spec2Model ----
(***************************************************************************)
(* A model of the scraper agent: the dispatcher callFunction (tools) and   *)
(* the task loop ScraperAgent.doTask with the agent's configuration        *)
(* methods.  Each action of doTask is the code that runs between two       *)
(* awaits; pc names the await the call is suspended at.                    *)
(***************************************************************************)
EXTENDS Integers, Sequences, FiniteSets, TLC

(* ------------------------------ bounds --------------------------------- *)

\* longest list of function calls in one model reply
MaxBatch == 2

\* largest budget given to setMaxAttempts; also caps the attempts explored
\* under a larger budget (the default)
MaxBudget == 2

(* --------------------------- program constants ------------------------- *)

\* private maxAttempts = 50
DefaultMaxAttempts == 50

\* the names the switch of callFunction recognizes
RegisteredNames ==
    {"goto", "click", "type", "checkSelector", "getHtml", "checkCurrentUrl",
     "screenshot", "keyPress"}

(* ------------------------------ the inputs ----------------------------- *)

\* call.name undefined or empty
NoName == ""

\* call.args undefined, an object without the fields, an object with them
NoArgs == "NoArgs"
EmptyArgs == "EmptyArgs"
FullArgs == "FullArgs"

\* the requests a model reply may hold: a registered action, an
\* unregistered one, and one that comes without parameters
FunctionCall ==
    {[name |-> "goto", args |-> FullArgs],
     [name |-> "fly", args |-> FullArgs],
     [name |-> "getHtml", args |-> NoArgs]}

\* a request that comes without a name
Nameless == [name |-> NoName, args |-> FullArgs]

\* the lists that hold a request without a name: alone, first and last
NamelessBatches ==
    {b \in {<<Nameless>>,
            <<Nameless, [name |-> "goto", args |-> FullArgs]>>,
            <<[name |-> "goto", args |-> FullArgs], Nameless>>} :
        Len(b) <= MaxBatch}

Batches ==
    UNION {[1..n -> FunctionCall] : n \in 0..MaxBatch} \cup NamelessBatches

Texts == {"Done.", "Working"}

\* what chat.sendMessage resolves to: a reply that requests actions comes
\* with the commentary "Working", one that requests none with either text
Replies ==
    {r \in [functionCalls : Batches, text : Texts] :
        Len(r.functionCalls) > 0 => r.text = "Working"}

\* the value of `response` before the first reply is assigned
NoResponse == [functionCalls |-> <<>>, text |-> "unassigned"]

\* the error a rejected chat.sendMessage carries
ChannelError == "ChannelError"

(* ----------------------------- the messages ---------------------------- *)

NoMsg == [kind |-> "none"]

TaskMsg == [kind |-> "task"]

\* a failed result sent as a diagnostic text
FunctionResponseOrText(name, result) ==
    IF result.success
    THEN [kind |-> "functionResponse", name |-> name, response |-> result]
    ELSE [kind |-> "text", prefix |-> "Error calling function",
          name |-> name, err |-> "failed"]

FunctionResponseMsg(name, result) ==
    [kind |-> "functionResponse", name |-> name, response |-> result]

ErrorMsg(functionName, err) ==
    [kind |-> "text", prefix |-> "Error calling function",
     name |-> functionName, err |-> err]

(* ------------------------- tools: callFunction ------------------------- *)

\* reading functionParams.<field>: a TypeError when functionParams is
\* undefined
ReadsParams(functionName) ==
    functionName \in {"goto", "click", "type", "checkSelector", "screenshot",
                      "keyPress"}

callGoto(ok) ==
    IF ok THEN [success |-> TRUE, html |-> "html"]
          ELSE [success |-> FALSE, html |-> "", error |-> "err"]

callClick(ok) ==
    IF ok THEN [success |-> TRUE] ELSE [success |-> FALSE, error |-> "err"]

callType(ok) ==
    IF ok THEN [success |-> TRUE] ELSE [success |-> FALSE, error |-> "err"]

callCheckSelector(ok) ==
    IF ok THEN [success |-> TRUE, isVisible |-> TRUE]
          ELSE [success |-> FALSE, isVisible |-> FALSE, error |-> "err"]

callGetHtml(ok) ==
    IF ok THEN [success |-> TRUE, html |-> "html"]
          ELSE [success |-> FALSE, html |-> "", error |-> "err"]

callCheckCurrentUrl(ok) ==
    IF ok THEN [success |-> TRUE, url |-> "url"]
          ELSE [success |-> FALSE, url |-> "", error |-> "err"]

callScreenshot(ok) ==
    IF ok THEN [success |-> TRUE] ELSE [success |-> FALSE]

callKeyPress(ok) ==
    IF ok THEN [success |-> TRUE] ELSE [success |-> FALSE, error |-> "err"]

Return(value) == [kind |-> "return", value |-> value]

Throw(err) == [kind |-> "throw", err |-> err]

\* a dispatcher that raises on a name no case matches
FunctionNotFoundRaises == Throw("Function not found")

\* the statement after the switch, reached by a name no case matches
FunctionNotFound == Return([success |-> FALSE, message |-> "Function not found"])

\* ok: whether the page operation the action performs goes through
callFunction(functionName, functionParams, ok) ==
    IF functionName \in RegisteredNames
       /\ ReadsParams(functionName) /\ functionParams = NoArgs
    THEN Throw("TypeError")
    ELSE CASE functionName = "goto" -> Return(callGoto(ok))
           [] functionName = "click" -> Return(callClick(ok))
           [] functionName = "type" -> Return(callType(ok))
           [] functionName = "checkSelector" -> Return(callCheckSelector(ok))
           [] functionName = "getHtml" -> Return(callGetHtml(ok))
           [] functionName = "checkCurrentUrl" -> Return(callCheckCurrentUrl(ok))
           [] functionName = "screenshot" -> Return(callScreenshot(ok))
           [] functionName = "keyPress" -> Return(callKeyPress(ok))
           [] OTHER -> FunctionNotFound

(* ------------------------------ the state ------------------------------ *)

VARIABLES
    page,           \* this.page: "none", "injected", "launched"
    browser,        \* this.browser: "none", "open"
    maxAttempts,    \* this.maxAttempts
    pc,             \* where the doTask call is: "idle" or the await it is at
    attempts,       \* doTask: let attempts
    response,       \* doTask: let response
    functionCalls,  \* doTask: the list destructured from response
    i,              \* doTask: position of `call` in functionCalls
    outcome,        \* how the last doTask call ended
    sent,           \* chat: the last message this call sent into the channel
    log,            \* output.md: the last entry this call appended
    marks,          \* output.md: the termination entries of this call
    history,        \* chat: the task turns its history holds, "empty",
                    \* "oneTask" or "manyTasks"
    pending,        \* the operations started and not yet settled
    csPc,           \* where the checkStatus call is: "idle", "awaitStatus"
    iterations,     \* history: entries into the body of the while loop
    singleTurns,    \* history: replies so far, if each had at most one
                    \* request and every dispatch succeeded; else Broken
    dispatched,     \* history: whether this call invoked callFunction
    dispatchedNow,  \* history: the requests this pass of the while loop
                    \* has dispatched, in order
    lastReply,      \* history: the last reply the channel gave this call
    afterReturn,    \* history: whether this call was made after one that
                    \* returned
    budgetSet,      \* history: the argument of the last setMaxAttempts
    dPc,            \* a direct call of callFunction: "off", "ready", "done"
    dName,          \* its functionName
    dParams,        \* its functionParams
    dOk,            \* whether its page operation goes through
    dOut            \* what it returned or raised

agentVars == <<page, browser, maxAttempts>>
loopVars == <<attempts, response, functionCalls, i, dispatchedNow>>
sinkVars == <<sent, log, marks>>
histVars == <<iterations, singleTurns, dispatched, lastReply, afterReturn>>
directVars == <<dPc, dName, dParams, dOk, dOut>>
\* what no step of doTask touches
otherVars == <<csPc, budgetSet, directVars>>
vars == <<agentVars, pc, loopVars, outcome, sinkVars, history, pending,
          histVars, otherVars>>

Broken == -1

NoOutcome == [kind |-> "none", value |-> "", at |-> ""]

Returned(text) == [kind |-> "returned", value |-> text, at |-> "afterLoop"]

Thrown(err, at) == [kind |-> "thrown", value |-> err, at |-> at]

SystemEntry(msg) == [ev |-> "system", msg |-> msg]

NoDirect == Return([success |-> FALSE])

\* an operation in flight: what it is and the request it belongs to
Op(op, idx) == [op |-> op, idx |-> idx]

Sends == {"sendTask", "sendResult", "sendDiag", "sendStatus"}

AgentInit ==
    /\ page \in {"none", "injected"}
    /\ browser = "none"
    /\ maxAttempts = DefaultMaxAttempts
    /\ pc = "idle"
    /\ attempts = 0
    /\ response = NoResponse
    /\ functionCalls = <<>>
    /\ i = 1
    /\ outcome = NoOutcome
    /\ sent = NoMsg
    /\ log = SystemEntry("Scraper Agent Log")
    /\ marks = {}
    /\ history = "empty"
    /\ pending = {}
    /\ csPc = "idle"
    /\ iterations = 0
    /\ singleTurns = 0
    /\ dispatched = FALSE
    /\ dispatchedNow = <<>>
    /\ lastReply = NoResponse
    /\ afterReturn = FALSE
    /\ budgetSet = DefaultMaxAttempts

Init ==
    /\ AgentInit
    /\ dPc = "off"
    /\ dName = "goto"
    /\ dParams = FullArgs
    /\ dOk = TRUE
    /\ dOut = NoDirect

(* ------------------------- the agent's methods ------------------------- *)

\* the caller has no call of this agent pending
CallerIdle == pc = "idle" /\ csPc = "idle"

\* a setter that only ever raises the budget
NewBudgetRaisedOnly(n) == IF n > maxAttempts THEN n ELSE maxAttempts

\* this.maxAttempts = maxAttempts
NewBudget(n) == n

\* setMaxAttempts(maxAttempts)
SetMaxAttempts(n) ==
    /\ CallerIdle
    /\ maxAttempts' = NewBudget(n)
    /\ budgetSet' = n
    /\ UNCHANGED <<page, browser, pc, loopVars, outcome, sinkVars, history,
                   pending, histVars, csPc, directVars>>

\* overridePage(page)
OverridePage ==
    /\ CallerIdle
    /\ page' = "injected"
    /\ UNCHANGED <<browser, maxAttempts, pc, loopVars, outcome, sinkVars,
                   history, pending, histVars, otherVars>>

\* a cleanup that forgets the page as well
PageClearedByCleanup == "none"

\* cleanup assigns this.browser only
PageAfterCleanup == page

\* cleanup()
Cleanup ==
    /\ CallerIdle
    /\ browser' = IF browser /= "none" THEN "none" ELSE browser
    /\ page' = PageAfterCleanup
    /\ UNCHANGED <<maxAttempts, pc, loopVars, outcome, sinkVars,
                   history, pending, histVars, otherVars>>

\* checkStatus(), to its await: the send of the status question on the
\* agent's chat
CheckStatus(callerMay) ==
    /\ callerMay
    /\ csPc = "idle"
    /\ csPc' = "awaitStatus"
    /\ pending' = pending \cup {Op("sendStatus", 0)}
    /\ UNCHANGED <<agentVars, pc, loopVars, outcome, sinkVars, history,
                   histVars, budgetSet, directVars>>

\* checkStatus(): the send settled; the call returns the parsed status or
\* throws, and changes no field of the agent
StatusSettled ==
    /\ csPc = "awaitStatus"
    /\ csPc' = "idle"
    /\ pending' = pending \ {Op("sendStatus", 0)}
    /\ UNCHANGED <<agentVars, pc, loopVars, outcome, sinkVars, history,
                   histVars, budgetSet, directVars>>

(* ------------------------------- doTask -------------------------------- *)

\* a doTask that acquires a browser whatever the agent holds
NeedsInitializeAlways == TRUE

\* if (!this.page)
NeedsInitialize == page = "none"

\* a counter that outlives the call
InitialAttemptsCarried == attempts

\* let attempts = 0
InitialAttempts == 0

\* a loop without a budget
LoopConditionAlways == TRUE

\* a loop that admits one iteration more
LoopConditionInclusive == attempts <= maxAttempts

\* while (attempts < this.maxAttempts)
LoopCondition == attempts < maxAttempts

\* a loop that counts the iteration it breaks out of
AttemptsAtBreakCounted == attempts + 1

\* break on an empty list: the attempts++ that ends the body is skipped
AttemptsAtBreak == attempts

\* a counter that advances once per request of the list
AttemptsPerRequest == attempts + Len(functionCalls)

\* attempts++ after the for loop
AttemptsAfterBatch == attempts + 1

\* a check that takes the budget as reached one attempt early
BudgetReachedEarly == attempts + 1 >= maxAttempts

\* if (attempts === this.maxAttempts)
BudgetReached == attempts = maxAttempts

\* a check that asks for both to be missing
InvalidCallBoth(call) == call.name = NoName /\ call.args = NoArgs

\* if (!functionName || !functionParams)
InvalidCall(call) == call.name = NoName \/ call.args = NoArgs

\* a break that leaves the while loop as well
AfterInvalidCallLeaves == "afterLoop"

\* break inside the for loop: on to attempts++ and the loop condition
AfterInvalidCall == "loopHead"

\* a for loop over the list of the reply captured last
callOfLatestReply ==
    IF i <= Len(response.functionCalls) THEN response.functionCalls[i]
                                        ELSE functionCalls[i]

\* for (const call of functionCalls): the request the for loop is at
call == functionCalls[i]

\* a task loop without the try block
InTryBlockNowhere(at) == FALSE

\* a try block that ends before the send of the function result
InTryBlockDispatchOnly(at) == at = "awaitDispatch"

\* the awaits inside try { ... } of the for loop
InTryBlock(at) == at \in {"awaitDispatch", "awaitResult"}

\* an operation started and never awaited
NotAwaited(op) == pending

\* await: the call goes on once the operation has settled
Settled(op) == pending \ {op}

\* a return without a value
ReturnValueNone == ""

\* return response.text
ReturnValue == response.text

\* a chat created anew for each task
AppendedToNewChat == "oneTask"

\* the chat made by the constructor takes the task turn after those it holds
Appended == IF history = "empty" THEN "oneTask" ELSE "manyTasks"

\* singleTurns after reply r
OnReply(r) ==
    IF singleTurns = Broken \/ Len(r.functionCalls) > 1
    THEN Broken
    ELSE singleTurns + Len(r.functionCalls)

\* the task-started entry, let attempts = 0, chat.sendMessage({message: task})
\* with `flying` the operations still in flight
BeginTask(flying) ==
    /\ log' = [ev |-> "taskStarted"]
    /\ attempts' = InitialAttempts
    /\ sent' = TaskMsg
    /\ history' = Appended
    /\ pending' = flying \cup {Op("sendTask", 0)}
    /\ pc' = "awaitTask"

\* an error leaves doTask: the promise it returned is rejected
Propagate(err, at, op) ==
    /\ outcome' = Thrown(err, at)
    /\ pending' = Settled(op)
    /\ pc' = "idle"
    /\ functionCalls' = <<>>
    /\ dispatchedNow' = <<>>
    /\ i' = 1
    /\ UNCHANGED <<attempts, response, history>>

\* catch (err) { ... } of the for loop
CatchBlock(functionName, err, op) ==
    /\ log' = [ev |-> "error", msg |-> ErrorMsg(functionName, err)]
    /\ sent' = ErrorMsg(functionName, err)
    /\ pending' = Settled(op) \cup {Op("sendDiag", i)}
    /\ pc' = "awaitDiag"
    /\ singleTurns' = Broken
    /\ UNCHANGED <<attempts, response, functionCalls, i, dispatchedNow,
                   outcome, marks, history, iterations, dispatched, lastReply,
                   afterReturn>>

\* an error raised by operation `op` while the call is at await `at`
Raise(err, at, op) ==
    IF InTryBlock(at)
    THEN CatchBlock(call.name, err, op)
    ELSE /\ Propagate(err, at, op)
         /\ UNCHANGED <<sinkVars, histVars>>

\* doTask(task), to its first await
DoTask ==
    /\ CallerIdle
    /\ outcome' = NoOutcome
    /\ marks' = {}
    /\ iterations' = 0
    /\ singleTurns' = 0
    /\ dispatched' = FALSE
    /\ lastReply' = NoResponse
    /\ afterReturn' = (outcome.kind = "returned")
    /\ IF NeedsInitialize
       THEN /\ pc' = "awaitLaunch"
            /\ pending' = pending \cup {Op("launch", 0)}
            /\ sent' = NoMsg
            /\ log' = SystemEntry("Scraper Agent Log")
            /\ attempts' = InitialAttempts
            /\ UNCHANGED history
       ELSE BeginTask(pending)
    /\ response' = NoResponse
    /\ functionCalls' = <<>>
    /\ dispatchedNow' = <<>>
    /\ i' = 1
    /\ UNCHANGED <<agentVars, otherVars>>

\* initialize: chromium.launch resolved
LaunchDone ==
    /\ pc = "awaitLaunch"
    /\ browser' = "open"
    /\ pending' = Settled(Op("launch", 0)) \cup {Op("newPage", 0)}
    /\ pc' = "awaitNewPage"
    /\ UNCHANGED <<page, maxAttempts, loopVars, outcome, sinkVars, history,
                   histVars, otherVars>>

\* initialize: chromium.launch rejected
LaunchFail ==
    /\ pc = "awaitLaunch"
    /\ Raise("BrowserLaunchError", "awaitLaunch", Op("launch", 0))
    /\ UNCHANGED <<agentVars, otherVars>>

\* initialize: browser.newPage resolved; then if (!this.page) throw
NewPageDone ==
    /\ pc = "awaitNewPage"
    /\ page' = "launched"
    /\ IF page' = "none"
       THEN /\ Propagate("Failed to initialize page", "awaitNewPage",
                         Op("newPage", 0))
            /\ UNCHANGED <<sinkVars, histVars>>
       ELSE /\ BeginTask(Settled(Op("newPage", 0)))
            /\ UNCHANGED <<response, functionCalls, i, dispatchedNow,
                           outcome, marks, histVars>>
    /\ UNCHANGED <<browser, maxAttempts, otherVars>>

\* initialize: browser.newPage rejected
NewPageFail ==
    /\ pc = "awaitNewPage"
    /\ Raise("NewPageError", "awaitNewPage", Op("newPage", 0))
    /\ UNCHANGED <<agentVars, otherVars>>

\* response = await this.chat.sendMessage({message: task})
TaskReply(r) ==
    /\ pc = "awaitTask"
    /\ response' = r
    /\ lastReply' = r
    /\ singleTurns' = OnReply(r)
    /\ pending' = Settled(Op("sendTask", 0))
    /\ pc' = "loopHead"
    /\ UNCHANGED <<agentVars, attempts, functionCalls, i, dispatchedNow,
                   outcome, sinkVars,
                   history, iterations, dispatched, afterReturn,
                   otherVars>>

\* the send of the task rejected
TaskSendFail ==
    /\ pc = "awaitTask"
    /\ Raise(ChannelError, "awaitTask", Op("sendTask", 0))
    /\ UNCHANGED <<agentVars, otherVars>>

\* the loop condition and the body up to the for loop (the agent-response
\* entry is followed at once by a system entry, which is the one kept)
LoopHead ==
    /\ pc = "loopHead"
    /\ IF LoopCondition
       THEN /\ iterations' = iterations + 1
            /\ functionCalls' = response.functionCalls
            /\ dispatchedNow' = <<>>
            /\ IF Len(response.functionCalls) = 0
               THEN /\ log' = SystemEntry("No function calls found")
                    /\ marks' = marks \cup {"completed"}
                    /\ attempts' = AttemptsAtBreak
                    /\ pc' = "afterLoop"
                    /\ i' = i
               ELSE /\ attempts < MaxBudget  \* exploration stops here
                    /\ log' = SystemEntry("Processing function calls")
                    /\ i' = 1
                    /\ pc' = "forHead"
                    /\ UNCHANGED <<attempts, marks>>
       ELSE /\ pc' = "afterLoop"
            /\ UNCHANGED <<attempts, functionCalls, i, dispatchedNow, log,
                           marks, iterations>>
    /\ UNCHANGED <<agentVars, response, outcome, sent, history, pending,
                   singleTurns, dispatched, lastReply, afterReturn,
                   otherVars>>

\* for (const call of functionCalls): the next call, up to the dispatch;
\* past the last call or on an invalid one, attempts++
ForHead ==
    /\ pc = "forHead"
    /\ IF i > Len(functionCalls)
       THEN /\ attempts' = AttemptsAfterBatch
            /\ pc' = "loopHead"
            /\ UNCHANGED <<log, pending, singleTurns, dispatched,
                           dispatchedNow>>
       ELSE IF InvalidCall(call)
       THEN /\ log' = SystemEntry("Invalid function call")
            /\ attempts' = IF AfterInvalidCall = "loopHead"
                           THEN AttemptsAfterBatch ELSE attempts
            /\ pc' = AfterInvalidCall
            /\ singleTurns' = Broken
            /\ UNCHANGED <<pending, dispatched, dispatchedNow>>
       ELSE /\ log' = [ev |-> "functionCall", name |-> call.name]
            /\ dispatched' = TRUE
            /\ dispatchedNow' = Append(dispatchedNow, call)
            /\ pending' = pending \cup {Op("dispatch", i)}
            /\ pc' = "awaitDispatch"
            /\ UNCHANGED <<attempts, singleTurns>>
    /\ UNCHANGED <<agentVars, response, functionCalls, i, outcome, sent,
                   marks, history, iterations, lastReply, afterReturn,
                   otherVars>>

\* callFunction settled: the result entry and the send of the
\* functionResponse, or the catch block
DispatchDone(ok) ==
    /\ pc = "awaitDispatch"
    /\ LET functionName == call.name
           r == callFunction(functionName, call.args, ok)
       IN IF r.kind = "throw"
          THEN Raise(r.err, "awaitDispatch", Op("dispatch", i))
          ELSE /\ log' = [ev |-> "result", name |-> functionName,
                          result |-> r.value]
               /\ sent' = FunctionResponseMsg(functionName, r.value)
               /\ pending' = Settled(Op("dispatch", i))
                                \cup {Op("sendResult", i)}
               /\ pc' = "awaitResult"
               /\ singleTurns' = IF r.value.success THEN singleTurns
                                                    ELSE Broken
               /\ UNCHANGED <<loopVars, outcome, marks, history, iterations,
                              dispatched, lastReply, afterReturn>>
    /\ UNCHANGED <<agentVars, otherVars>>

\* response = await this.chat.sendMessage({message: {functionResponse}})
ResultReply(r) ==
    /\ pc = "awaitResult"
    /\ response' = r
    /\ lastReply' = r
    /\ singleTurns' = OnReply(r)
    /\ pending' = Settled(Op("sendResult", i))
    /\ i' = i + 1
    /\ pc' = "forHead"
    /\ UNCHANGED <<agentVars, attempts, functionCalls, dispatchedNow,
                   outcome, sinkVars,
                   history, iterations, dispatched, afterReturn,
                   otherVars>>

\* the send of the functionResponse rejected
ResultSendFail ==
    /\ pc = "awaitResult"
    /\ Raise(ChannelError, "awaitResult", Op("sendResult", i))
    /\ UNCHANGED <<agentVars, otherVars>>

\* response = await this.chat.sendMessage({message: errorMsg})
DiagReply(r) ==
    /\ pc = "awaitDiag"
    /\ response' = r
    /\ lastReply' = r
    /\ singleTurns' = OnReply(r)
    /\ pending' = Settled(Op("sendDiag", i))
    /\ i' = i + 1
    /\ pc' = "forHead"
    /\ UNCHANGED <<agentVars, attempts, functionCalls, dispatchedNow,
                   outcome, sinkVars,
                   history, iterations, dispatched, afterReturn,
                   otherVars>>

\* the send of errorMsg rejected
DiagSendFail ==
    /\ pc = "awaitDiag"
    /\ Raise(ChannelError, "awaitDiag", Op("sendDiag", i))
    /\ UNCHANGED <<agentVars, otherVars>>

\* after the loop: the max-attempts entry, the task-completed entry,
\* return response.text
AfterLoop ==
    /\ pc = "afterLoop"
    /\ marks' = IF BudgetReached THEN marks \cup {"exhausted"} ELSE marks
    /\ log' = [ev |-> "taskCompleted", attempts |-> attempts,
               maxAttempts |-> maxAttempts]
    /\ outcome' = Returned(ReturnValue)
    /\ pc' = "idle"
    /\ functionCalls' = <<>>
    /\ dispatchedNow' = <<>>
    /\ i' = 1
    /\ UNCHANGED <<agentVars, attempts, response, sent, history, pending,
                   histVars, otherVars>>

\* a caller of doTask that awaits each call before it makes the next
Next ==
    \/ \E n \in 0..MaxBudget : SetMaxAttempts(n)
    \/ OverridePage
    \/ Cleanup
    \/ DoTask
    \/ LaunchDone
    \/ LaunchFail
    \/ NewPageDone
    \/ NewPageFail
    \/ \E r \in Replies : TaskReply(r)
    \/ TaskSendFail
    \/ LoopHead
    \/ ForHead
    \/ \E ok \in BOOLEAN : DispatchDone(ok)
    \/ \E r \in Replies : ResultReply(r)
    \/ ResultSendFail
    \/ \E r \in Replies : DiagReply(r)
    \/ DiagSendFail
    \/ AfterLoop

Spec == Init /\ [][Next]_vars

(* ------------- doTask when every operation it awaits resolves ---------- *)

\* the replies of this specification: their requests are the registered
\* action and the request without parameters
LiveReplies ==
    {r \in Replies :
        \A j \in 1..Len(r.functionCalls) :
            r.functionCalls[j].name \in {"goto", "getHtml"}}

\* the steps that take a call of doTask from one await to the next
TaskProgress ==
    \/ LaunchDone
    \/ NewPageDone
    \/ \E r \in LiveReplies : TaskReply(r)
    \/ LoopHead
    \/ ForHead
    \/ \E ok \in BOOLEAN : DispatchDone(ok)
    \/ \E r \in LiveReplies : ResultReply(r)
    \/ AfterLoop

NextLive ==
    \/ \E n \in 0..MaxBudget : SetMaxAttempts(n)
    \/ DoTask
    \/ LaunchDone
    \/ NewPageDone
    \/ \E r \in LiveReplies : TaskReply(r)
    \/ LoopHead
    \/ ForHead
    \/ \E ok \in BOOLEAN : DispatchDone(ok)
    \/ \E r \in LiveReplies : ResultReply(r)
    \/ AfterLoop

\* every awaited operation settles, and the call is resumed when it has
SpecLive == Init /\ [][NextLive]_vars /\ WF_vars(TaskProgress)

(* ------------- a caller that does not await doTask before checkStatus --- *)

\* the call of doTask is suspended at an await
AtAwait ==
    pc \in {"awaitLaunch", "awaitNewPage", "awaitTask", "awaitDispatch",
            "awaitResult", "awaitDiag"}

NextOverlap ==
    \/ \E n \in 0..MaxBudget : SetMaxAttempts(n)
    \/ CheckStatus(pc = "idle" \/ AtAwait)
    \/ StatusSettled
    \/ DoTask
    \/ LaunchDone
    \/ LaunchFail
    \/ NewPageDone
    \/ NewPageFail
    \/ \E r \in Replies : TaskReply(r)
    \/ TaskSendFail
    \/ LoopHead
    \/ ForHead
    \/ \E ok \in BOOLEAN : DispatchDone(ok)
    \/ \E r \in Replies : ResultReply(r)
    \/ ResultSendFail
    \/ \E r \in Replies : DiagReply(r)
    \/ DiagSendFail
    \/ AfterLoop

SpecOverlap == Init /\ [][NextOverlap]_vars

(* ---------------------- callFunction called directly ------------------- *)

InitDispatch ==
    /\ AgentInit
    /\ page = "injected"
    /\ dPc = "ready"
    /\ dName \in RegisteredNames \cup {"fly", NoName}
    /\ dParams \in {NoArgs, EmptyArgs, FullArgs}
    /\ dOk \in BOOLEAN
    /\ dOut = NoDirect

\* await callFunction(page, functionName, functionParams)
CallFunctionDirect ==
    /\ dPc = "ready"
    /\ dOut' = callFunction(dName, dParams, dOk)
    /\ dPc' = "done"
    /\ UNCHANGED <<agentVars, pc, loopVars, outcome, sinkVars, history,
                   pending, histVars, csPc, budgetSet, dName, dParams, dOk>>

NextDispatch == CallFunctionDirect

SpecDispatch == InitDispatch /\ [][NextDispatch]_vars

(* ------------------------------ properties ----------------------------- *)

InCall == pc /= "idle"

AfterFirstReply ==
    pc \in {"loopHead", "forHead", "awaitDispatch", "awaitResult",
            "awaitDiag", "afterLoop"}

HasReturned == outcome.kind = "returned"

HasThrown == outcome.kind = "thrown"

Acquisition == {"awaitLaunch", "awaitNewPage"}

\* the task-completed entry holds the attempts used and the budget
AttemptsUsed == log.attempts

BudgetOfCall == log.maxAttempts

\* C1: within one doTask call the loop body is entered at most maxAttempts
\* times and the attempts counter never exceeds maxAttempts, however many
\* requests the replies hold.
C1_AttemptsWithinBudget ==
    InCall => (attempts <= maxAttempts /\ iterations <= maxAttempts)

\* C1 witness: a call used its whole budget of two or more on replies that
\* held several requests.
C1_Witness ==
    /\ pc = "afterLoop"
    /\ maxAttempts >= 2
    /\ attempts = maxAttempts
    /\ iterations = maxAttempts
    /\ Len(functionCalls) >= 2

\* C3 as stated: the only failure that leaves doTask is the failure to
\* acquire a browser session.
C3_OnlyAcquisitionPropagates ==
    HasThrown => outcome.at \in Acquisition

\* C3 amended: an error leaves doTask only from the acquisition of the
\* browser session, from the send of the task and from the send of the
\* diagnostic message; an error raised inside the try block of a request
\* (the dispatch, the send of the function result) does not leave it.
C3_WhatPropagates ==
    /\ HasThrown =>
           outcome.at \in Acquisition \cup {"awaitTask", "awaitDiag"}
    /\ pc = "awaitDiag" =>
           /\ outcome.kind = "none"
           /\ sent = ErrorMsg(functionCalls[i].name, ChannelError)

\* C3 witness: the send of a diagnostic message failed and its error left
\* doTask, after the failed send of a function result had been caught.
C3_Witness ==
    /\ HasThrown
    /\ outcome.at = "awaitDiag"
    /\ outcome.value = ChannelError
    /\ sent.kind = "text"

\* C4: a browser is acquired only while the agent holds no page, and a call
\* that the acquisition aborts has sent no message and dispatched no action.
C4_AcquireOnlyWithoutPage ==
    /\ pc \in Acquisition =>
           (page = "none" /\ sent = NoMsg /\ ~dispatched)
    /\ (HasThrown /\ outcome.at \in Acquisition) =>
           (sent = NoMsg /\ ~dispatched /\ iterations = 0)

\* C4 witness: a call of an agent without a page was aborted by the failed
\* launch of the browser.
C4_Witness ==
    /\ HasThrown
    /\ outcome.at = "awaitLaunch"
    /\ page = "none"
    /\ sent = NoMsg

\* the case of C5: the call returned, its budget was at least 1 and no
\* reply it received held a request
C5_Case == HasReturned /\ BudgetOfCall >= 1 /\ singleTurns = 0

\* C5 as stated: when the first reply holds no request, doTask ends with
\* attemptsUsed = 1.
C5_OneAttempt ==
    C5_Case => AttemptsUsed = 1

\* C5 amended: when the first reply holds no request (budget at least 1),
\* doTask ends after one pass of the loop with attemptsUsed = 0, having
\* dispatched no action and sent
\* no message but the task, records the completion path and returns the text
\* of that reply.
C5_FirstReplyEmpty ==
    /\ (AfterFirstReply /\ singleTurns = 0) =>
           /\ pc \in {"loopHead", "afterLoop"}
           /\ sent = TaskMsg
           /\ ~dispatched
           /\ attempts = 0
    /\ C5_Case =>
           /\ AttemptsUsed = 0
           /\ iterations = 1
           /\ sent = TaskMsg
           /\ ~dispatched
           /\ marks = {"completed"}
           /\ Len(response.functionCalls) = 0
           /\ outcome.value = response.text

\* C5 witness: a call with a budget of at least 1 returned the text "Done."
\* of a first reply without requests.
C5_Witness ==
    /\ C5_Case
    /\ iterations = 1
    /\ outcome.value = "Done."

\* the case of C6: the call returned after K >= 1 replies of exactly one
\* request each, all dispatched with success, and a last reply without
\* requests, under a budget above K
C6_Case ==
    /\ HasReturned
    /\ singleTurns >= 1
    /\ Len(response.functionCalls) = 0
    /\ BudgetOfCall > singleTurns

\* C6: after K replies of one successful request each and then a reply
\* without requests, under a budget above K, attemptsUsed = K.
C6_AttemptsEqualTurns ==
    C6_Case => (AttemptsUsed = singleTurns /\ marks = {"completed"})

\* C6 witness: K = 2.
C6_Witness ==
    C6_Case /\ singleTurns = 2 /\ AttemptsUsed = 2

\* the case of C7: one reply with one request, dispatched with success, then
\* a reply without requests and with the text "Done."
C7_Case ==
    /\ HasReturned
    /\ singleTurns = 1
    /\ dispatched
    /\ Len(response.functionCalls) = 0
    /\ response.text = "Done."

\* C7 as stated: in that scenario doTask returns "Done." with
\* attemptsUsed = 2.
C7_TwoAttempts ==
    C7_Case => (outcome.value = "Done." /\ AttemptsUsed = 2)

\* C7 amended: in that scenario doTask returns "Done." with
\* attemptsUsed = 1.
C7_DoneAfterOneAttempt ==
    C7_Case => (outcome.value = "Done." /\ AttemptsUsed = 1)

\* C7 witness: the scenario, under the default budget.
C7_Witness ==
    /\ C7_Case
    /\ BudgetOfCall = DefaultMaxAttempts
    /\ sent.kind = "functionResponse"
    /\ sent.response.success

\* C8: a call that returns records exactly one termination path: budget
\* exhaustion if and only if attempts reached maxAttempts, the completion
\* signal if and only if the loop examined a reply without requests.
C8_OneTerminationPath ==
    HasReturned =>
        /\ ("exhausted" \in marks) <=> (AttemptsUsed = BudgetOfCall)
        /\ ("completed" \in marks) <=>
               (AttemptsUsed < BudgetOfCall /\ Len(response.functionCalls) = 0)
        /\ ("exhausted" \in marks) /= ("completed" \in marks)
        /\ iterations = IF "completed" \in marks THEN AttemptsUsed + 1
                                                 ELSE AttemptsUsed

\* C8 witness: maxAttempts = 1 and every reply requests an action; the call
\* returns after 1 attempt with the exhaustion recorded.
C8_Witness ==
    /\ HasReturned
    /\ BudgetOfCall = 1
    /\ AttemptsUsed = 1
    /\ marks = {"exhausted"}
    /\ Len(response.functionCalls) > 0
    /\ dispatched

Unregistered(request) == request.name \notin RegisteredNames

\* C9: the dispatch of a request that names an unregistered action does not
\* end doTask: its "Function not found" result is recorded and sent as the
\* function result, and once that send is answered the loop is at the next
\* request.
C9_UnknownActionConfined ==
    [][/\ (pc = "awaitDispatch" /\ Unregistered(functionCalls[i])) =>
           /\ pc' = "awaitResult"
           /\ outcome' = outcome
           /\ log' = [ev |-> "result", name |-> functionCalls[i].name,
                      result |-> [success |-> FALSE,
                                  message |-> "Function not found"]]
           /\ sent' = FunctionResponseMsg(functionCalls[i].name, log'.result)
       /\ (pc = "awaitResult" /\ Unregistered(functionCalls[i])) =>
           \/ pc' = "forHead" /\ i' = i + 1 /\ attempts' = attempts
           \/ pc' = "awaitDiag" /\ outcome' = outcome]_vars

\* C9 witness: the first request of a batch of two named an unregistered
\* action; its result was sent and the loop is at the second request.
C9_Witness ==
    /\ pc = "forHead"
    /\ Len(functionCalls) = 2
    /\ i = 2
    /\ Unregistered(functionCalls[1])
    /\ sent.kind = "functionResponse"
    /\ sent.name = functionCalls[1].name
    /\ outcome.kind = "none"

\* C10 as stated: callFunction returns a result with a boolean success flag
\* for every registered action and raises for any other name.
C10_RaisesOnUnknown ==
    dPc = "done" =>
        /\ dName \in RegisteredNames =>
               (dOut.kind = "return" /\ dOut.value.success \in BOOLEAN)
        /\ dName \notin RegisteredNames => dOut.kind = "throw"

\* C10 amended: callFunction returns a result with a boolean success flag
\* for every registered action that is given a parameters object or reads no
\* parameter; for any other name it does not raise, it returns
\* {success: false, message: "Function not found"}; it raises only when a
\* registered action that reads a parameter is given no parameters object.
C10_ReturnsOnUnknown ==
    dPc = "done" =>
        /\ (dName \in RegisteredNames
              /\ (dParams /= NoArgs \/ ~ReadsParams(dName))) =>
               /\ dOut.kind = "return"
               /\ dOut.value.success \in BOOLEAN
               /\ dOut.value.success = dOk
        /\ dName \notin RegisteredNames =>
               dOut = Return([success |-> FALSE,
                              message |-> "Function not found"])
        /\ dOut.kind = "throw" =>
               (dName \in RegisteredNames /\ dParams = NoArgs)

\* C10 witness: callFunction was called with an unregistered name and
\* returned.
C10_Witness ==
    /\ dPc = "done"
    /\ dName = "fly"
    /\ dOut.kind = "return"
    /\ ~dOut.value.success


\* C11: the result of a dispatched action is sent as a function-result
\* message tagged with the name of the action whether it reports success or
\* failure; a diagnostic text is sent only for an error that was raised; the
\* reply to the message is the current reply when the for loop goes on.
C11_FailedResultIsAResult ==
    /\ pc = "awaitResult" =>
           /\ log.ev = "result"
           /\ sent.kind = "functionResponse"
           /\ sent.name = functionCalls[i].name
           /\ sent.response = log.result
           /\ pending = {Op("sendResult", i)}
    /\ pc = "awaitDiag" =>
           /\ sent.kind = "text"
           /\ sent.err = ChannelError
    /\ (pc = "forHead" /\ i > 1) => response = lastReply

\* C11 witness: goto reported success = false, its result went out as the
\* function result of goto, and the for loop is at the next request with the
\* reply as the current reply.
C11_Witness ==
    /\ pc = "forHead"
    /\ i = 2
    /\ Len(functionCalls) = 2
    /\ functionCalls[1].name = "goto"
    /\ sent.kind = "functionResponse"
    /\ sent.name = "goto"
    /\ ~sent.response.success
    /\ response = lastReply
    /\ outcome.kind = "none"

\* a request that misses its name or its parameters
Malformed(request) == request.name = NoName \/ request.args = NoArgs

\* C12: a request that misses its name or its parameters is never dispatched
\* and no request is dispatched after one in its list; the step that meets it
\* records the invalid-call entry, sends nothing, starts nothing, adds one to
\* the attempts and goes back to the loop condition.
C12_MalformedEndsBatch ==
    /\ [](pc \in {"awaitDispatch", "awaitResult", "awaitDiag"} =>
             \A j \in 1..i : ~Malformed(functionCalls[j]))
    /\ [][(/\ pc = "forHead"
           /\ i <= Len(functionCalls)
           /\ Malformed(functionCalls[i])) =>
              /\ log' = SystemEntry("Invalid function call")
              /\ pc' = "loopHead"
              /\ attempts' = attempts + 1
              /\ UNCHANGED <<sent, pending, dispatched, response,
                             functionCalls, i, outcome, history>>]_vars

\* C12 witness: the first of two requests came without parameters; nothing
\* was dispatched or sent for either, one attempt is counted and the call is
\* back at the loop condition.
C12_Witness ==
    /\ pc = "loopHead"
    /\ log = SystemEntry("Invalid function call")
    /\ Len(functionCalls) = 2
    /\ i = 1
    /\ functionCalls[1].args = NoArgs
    /\ ~Malformed(functionCalls[2])
    /\ ~dispatched
    /\ sent = TaskMsg
    /\ pending = {}
    /\ attempts = 1

\* the operations a request of the list starts
OfRequest == {"dispatch", "sendResult", "sendDiag"}

\* C13: at most one dispatch or send of a call is in flight at any time, and
\* it belongs to the request the for loop is at: the dispatch of request i
\* starts only when nothing of an earlier request is still in flight, and
\* between two steps of the loop nothing is in flight at all.
C13_OneAtATime ==
    /\ Cardinality(pending) <= 1
    /\ \A p \in pending : p.op \in OfRequest => p.idx = i
    /\ pc = "awaitDispatch" => pending = {Op("dispatch", i)}
    /\ pc = "awaitResult" => pending = {Op("sendResult", i)}
    /\ pc = "awaitDiag" => pending = {Op("sendDiag", i)}
    /\ pc = "awaitTask" => pending = {Op("sendTask", 0)}
    /\ pc \in {"loopHead", "forHead", "afterLoop", "idle"} => pending = {}

\* C13 witness: the second request of a list is being dispatched, after the
\* first was dispatched and the message sent for it was answered; nothing
\* else is in flight.
C13_Witness ==
    /\ pc = "awaitDispatch"
    /\ i = 2
    /\ Len(functionCalls) = 2
    /\ pending = {Op("dispatch", 2)}
    /\ sent.kind \in {"functionResponse", "text"}
    /\ sent.name = functionCalls[1].name
    /\ response = lastReply

\* C14 as stated: the attempts grow by one with every pass of the while
\* loop, so between passes they equal the passes made.
C14_OnePerIteration ==
    pc \in {"loopHead", "afterLoop"} => attempts = iterations

\* C14 amended: a pass that processes a list of requests adds exactly one to
\* the attempts, at its end, however many requests it processed; the pass
\* that finds no request breaks out of the loop and adds nothing.
C14_OnePerBatch ==
    /\ pc \in {"forHead", "awaitDispatch", "awaitResult", "awaitDiag"} =>
           attempts = iterations - 1
    /\ pc = "loopHead" => attempts = iterations
    /\ pc = "afterLoop" =>
           attempts = IF "completed" \in marks THEN iterations - 1
                                               ELSE iterations

\* C14 witness: one pass processed two requests and counted one attempt.
C14_Witness ==
    /\ pc = "loopHead"
    /\ Len(functionCalls) = 2
    /\ i = 3
    /\ iterations = 1
    /\ attempts = 1

\* C15: a doTask that returns gives the text of the last reply the channel
\* gave this call, which is the value of response, whether the loop was left
\* on a reply without requests or because the budget was used up.
C15_ReturnsLastReplyText ==
    /\ AfterFirstReply => response = lastReply
    /\ HasReturned =>
           /\ response = lastReply
           /\ outcome.value = lastReply.text
           /\ lastReply \in Replies

\* C15 witness: the budget was used up; the call returned the text of the
\* reply to the last function result it sent, a reply that asks for more.
C15_Witness ==
    /\ HasReturned
    /\ marks = {"exhausted"}
    /\ AttemptsUsed = 2
    /\ sent.kind = "functionResponse"
    /\ Len(lastReply.functionCalls) > 0
    /\ outcome.value = lastReply.text

\* C16: the budget of the agent is the argument of the last setMaxAttempts
\* (the default before the first), whatever was set before and however often
\* the same value was set, and it is the budget the task loop enforces: a
\* call never counts more attempts, and leaves the loop without a reply that
\* holds no request only with exactly that many.
C16_LastBudgetWins ==
    /\ maxAttempts = budgetSet
    /\ InCall => attempts <= budgetSet
    /\ pc = "afterLoop" => ("completed" \in marks \/ attempts = budgetSet)

\* C16 witness: after an earlier task the budget was set to 1, and the loop
\* of the next task ends on it after one attempt.
C16_Witness ==
    /\ pc = "afterLoop"
    /\ history = "manyTasks"
    /\ budgetSet = 1
    /\ attempts = 1
    /\ marks = {}

\* C17: when every send and every dispatch resolves, a call of doTask with a
\* budget of at most MaxBudget ends by returning, on a reply without requests
\* or on the used-up budget; while it runs its attempts start at 0 and never
\* decrease, and it is idle again only by that return.
C17_TerminatesByReturn ==
    /\ [][/\ (pc = "idle" /\ pc' /= "idle") => attempts' = 0
          /\ (pc /= "idle" /\ pc' /= "idle") => attempts' >= attempts
          /\ (pc /= "idle" /\ pc' = "idle") =>
                 /\ pc = "afterLoop"
                 /\ outcome'.kind = "returned"
                 /\ attempts' = attempts
                 /\ marks' \in {{"completed"}, {"exhausted"}}]_vars
    /\ (InCall /\ maxAttempts <= MaxBudget) ~> (pc = "idle" /\ HasReturned)

\* C17 witness: a call that acquired its browser session used up a budget
\* of two attempts and returned.
C17_Witness ==
    /\ pc = "idle"
    /\ HasReturned
    /\ page = "launched"
    /\ marks = {"exhausted"}
    /\ AttemptsUsed = 2
    /\ BudgetOfCall = 2

\* the sends in flight on the chat of the agent
SendsInFlight == {p \in pending : p.op \in Sends}

\* C18 as stated: no two sends on the chat of one agent and no two
\* dispatches on its page are in progress at the same time, also when
\* checkStatus is called before doTask has returned.
C18_NeverTwoInFlight ==
    /\ Cardinality(SendsInFlight) <= 1
    /\ Cardinality(pending \ SendsInFlight) <= 1

\* C18 amended: each call has at most one operation in flight, and two are
\* in flight on the agent only while a checkStatus and a doTask are both
\* pending, that is, only when the caller did not await the one before it
\* made the other; the agent does not hold the second call back.
C18_OnePerCall ==
    /\ Cardinality(pending \ {Op("sendStatus", 0)}) <= 1
    /\ Op("sendStatus", 0) \in pending <=> csPc = "awaitStatus"
    /\ (pc = "idle" \/ csPc = "idle") => Cardinality(pending) <= 1
    /\ (AtAwait /\ csPc = "awaitStatus") => Cardinality(pending) = 2

\* C18 witness: checkStatus was called while doTask awaited the reply to a
\* function result; both sends are in flight on the one chat.
C18_Witness ==
    /\ pc = "awaitResult"
    /\ csPc = "awaitStatus"
    /\ SendsInFlight = {Op("sendResult", i), Op("sendStatus", 0)}

\* C19: a doTask called after an earlier one has returned starts at once
\* with its attempts at 0, sends its task on the chat that holds the turns of
\* the earlier task, and has the whole budget of the agent: no step of a
\* call changes maxAttempts, and the later call leaves its loop without a
\* reply that holds no request only with maxAttempts attempts of its own.
C19_SecondTaskStartsAfresh ==
    /\ [][/\ (pc = "idle" /\ HasReturned /\ pc' /= "idle") =>
                 /\ pc' = "awaitTask"
                 /\ attempts' = 0
                 /\ iterations' = 0
                 /\ sent' = TaskMsg
                 /\ history /= "empty"
                 /\ history' = "manyTasks"
          /\ (InCall \/ pc' /= "idle") => maxAttempts' = maxAttempts]_vars
    /\ [](afterReturn =>
             /\ history = "manyTasks"
             /\ InCall => attempts <= maxAttempts
             /\ pc = "afterLoop" =>
                    ("completed" \in marks \/ attempts = maxAttempts))

\* C19 witness: a task started after an earlier one had returned, on the
\* chat that holds its turns, has used the whole budget of two attempts.
C19_Witness ==
    /\ afterReturn
    /\ history = "manyTasks"
    /\ pc = "afterLoop"
    /\ maxAttempts = 2
    /\ attempts = 2
    /\ iterations = 2
    /\ marks = {}

\* the first request of the current reply misses its name or its parameters
FirstMalformed ==
    /\ Len(response.functionCalls) > 0
    /\ Malformed(response.functionCalls[1])

\* the loop is about to examine such a reply, or has just taken its list
StuckOnReply ==
    /\ FirstMalformed
    /\ pc = "loopHead" \/ (pc = "forHead" /\ i = 1) \/ pc = "afterLoop"

\* C20: once the loop examines a reply whose first request misses its name or
\* its parameters, no step of the call sends, dispatches or changes the
\* current reply; the call stays on that reply until it returns, and it
\* returns marked budget-exhausted with as many attempts as the budget.
C20_SpinsToExhaustion ==
    [][StuckOnReply =>
           /\ UNCHANGED <<response, sent, pending, dispatched, lastReply>>
           /\ pc' /= "idle" => StuckOnReply'
           /\ pc' = "idle" =>
                  /\ outcome'.kind = "returned"
                  /\ marks' = {"exhausted"}
                  /\ log'.attempts = log'.maxAttempts]_vars

\* C20 witness: the reply to the task began with a request without a name;
\* the call made two passes over it, sent and dispatched nothing, and returned
\* on its budget of two.
C20_Witness ==
    /\ HasReturned
    /\ FirstMalformed
    /\ response.functionCalls[1].name = NoName
    /\ sent = TaskMsg
    /\ ~dispatched
    /\ iterations = 2
    /\ marks = {"exhausted"}
    /\ AttemptsUsed = 2
    /\ BudgetOfCall = 2

\* the awaits inside the body of the for loop
InRequest == {"awaitDispatch", "awaitResult", "awaitDiag"}

\* C21: the requests a pass of the while loop dispatches are, in order, a
\* prefix of the list taken from the reply the pass examined; that list is
\* the list of the reply captured last before the pass and does not change
\* during the pass, whatever the replies captured inside the pass hold.
C21_DispatchedIsPrefix ==
    /\ [](/\ pc \in InRequest =>
                 dispatchedNow = SubSeq(functionCalls, 1, i)
          /\ pc \in {"loopHead", "forHead"} =>
                 dispatchedNow = SubSeq(functionCalls, 1, i - 1)
          /\ (pc = "forHead" /\ i = 1) =>
                 functionCalls = lastReply.functionCalls)
    /\ [][/\ (pc \in InRequest \cup {"forHead"} /\ pc' /= "idle") =>
                 functionCalls' = functionCalls
          /\ (pc = "loopHead" /\ pc' = "forHead") =>
                 /\ functionCalls' = lastReply.functionCalls
                 /\ response' = lastReply]_vars

\* C21 witness: the second request of the examined list is being dispatched
\* although the reply captured after the first holds a different second
\* request; what was dispatched is the examined list.
C21_Witness ==
    /\ pc = "awaitDispatch"
    /\ i = 2
    /\ Len(response.functionCalls) = 2
    /\ response.functionCalls[2] /= functionCalls[2]
    /\ response.functionCalls[1] /= functionCalls[1]
    /\ dispatchedNow = functionCalls

\* the diagnostic text for the request the for loop is at
DiagnosticOfSendFailure ==
    [kind |-> "text", prefix |-> "Error calling function",
     name |-> functionCalls[i].name, err |-> ChannelError]

\* C22: the send of a function result either is answered or, when it fails,
\* is followed by the send of the diagnostic text that names the action,
\* which has run, while the call goes on; the failure of that send and the
\* failure of the send of the task end the call with the error of the
\* channel, and no other failure of a send does.
C22_ResultSendFailureCaught ==
    /\ [][pc = "awaitResult" =>
              \/ /\ pc' = "forHead"
                 /\ response' = lastReply'
              \/ /\ pc' = "awaitDiag"
                 /\ sent.kind = "functionResponse"
                 /\ sent' = DiagnosticOfSendFailure
                 /\ log' = [ev |-> "error", msg |-> sent']
                 /\ dispatchedNow[i] = functionCalls[i]
                 /\ UNCHANGED <<outcome, response, attempts, i>>]_vars
    /\ [][(pc \in {"awaitDiag", "awaitTask"} /\ pc' = "idle") =>
              /\ outcome' = Thrown(ChannelError, pc)
              /\ sent' = sent]_vars
    /\ [](HasThrown => outcome.at \notin {"awaitDispatch", "awaitResult"})

\* C22 witness: goto ran, the send of its result failed, the diagnostic text
\* for goto was sent, and the failure of that send ended the call.
C22_Witness ==
    /\ HasThrown
    /\ outcome = Thrown(ChannelError, "awaitDiag")
    /\ dispatched
    /\ sent.kind = "text"
    /\ sent.name = "goto"
    /\ sent.err = ChannelError
    /\ log.ev = "error"

\* C23: between calls the browser of the agent changes only from open to
\* closed, with the page left as it is, and the page changes only to an
\* injected one; the browser is opened by the launch of doTask alone; an
\* agent that has sent a task holds a page ever after; a doTask called with
\* a page goes to the send of its task and leaves the browser as it is.
C23_CleanupKeepsPage ==
    /\ [][/\ (pc = "idle" /\ pc' = "idle" /\ browser' /= browser) =>
                 /\ browser = "open"
                 /\ browser' = "none"
                 /\ page' = page
          /\ (pc = "idle" /\ pc' = "idle" /\ page' /= page) =>
                 page' = "injected"
          /\ (browser /= "open" /\ browser' = "open") =>
                 /\ pc = "awaitLaunch"
                 /\ page = "none"
          /\ (pc = "idle" /\ pc' /= "idle" /\ page /= "none") =>
                 /\ pc' = "awaitTask"
                 /\ UNCHANGED <<page, browser>>]_vars
    /\ [](history /= "empty" => page /= "none")

\* C23 witness: the browser the agent launched was closed by cleanup after a
\* task had returned; a later task, holding the page of that browser, is
\* dispatching an action.
C23_Witness ==
    /\ afterReturn
    /\ page = "launched"
    /\ browser = "none"
    /\ pc = "awaitDispatch"
    /\ dispatchedNow = <<functionCalls[1]>>

====
